---- MODULE Spec2Model ----
(***************************************************************************)
(* Model of quantum_collapse_poc.py: the QuantumCollapse trial engine      *)
(* (pure_random_flip, biphoton_cascade_prediction, run_trial,              *)
(* get_accuracy) and the driver loop of run_quantum_poc.                   *)
(*                                                                         *)
(* Python strings are modelled as sequences of code points; every string   *)
(* the program builds is ASCII, so str.encode() yields one byte per code   *)
(* point.  hashlib.sha256 is computed bit-exactly (FIPS 180-4) on 32-bit   *)
(* words held as <<high 16 bits, low 16 bits>>.                            *)
(***************************************************************************)
EXTENDS Integers, Sequences, FiniteSets, TLC

----------------------------------------------------------------------------
(* 32-bit word arithmetic used by SHA-256 *)

Pow2 == <<1, 2, 4, 8, 16, 32, 64, 128, 256, 512, 1024, 2048, 4096, 8192,
          16384, 32768, 65536>>

\* 2^n for n in 0..16
TwoTo(cnt) == Pow2[cnt + 1]

RECURSIVE XorBits(_, _, _)
\* bitwise exclusive-or of two naturals below 2^n
XorBits(a, b, cnt) ==
  IF cnt = 0 THEN 0
  ELSE ((a + b) % 2) + 2 * XorBits(a \div 2, b \div 2, cnt - 1)

RECURSIVE AndBits(_, _, _)
\* bitwise and of two naturals below 2^n
AndBits(a, b, cnt) ==
  IF cnt = 0 THEN 0
  ELSE ((a % 2) * (b % 2)) + 2 * AndBits(a \div 2, b \div 2, cnt - 1)

RECURSIVE XorRow(_, _, _)
\* <<a xor lo, a xor (lo + 1), ..., a xor (lo + n - 1)>>, n a power of 2
XorRow(a, lo, cnt) ==
  IF cnt = 1 THEN <<XorBits(a, lo, 8)>>
  ELSE XorRow(a, lo, cnt \div 2) \o XorRow(a, lo + (cnt \div 2), cnt \div 2)

RECURSIVE AndRow(_, _, _)
\* <<a and lo, a and (lo + 1), ..., a and (lo + n - 1)>>, n a power of 2
AndRow(a, lo, cnt) ==
  IF cnt = 1 THEN <<AndBits(a, lo, 8)>>
  ELSE AndRow(a, lo, cnt \div 2) \o AndRow(a, lo + (cnt \div 2), cnt \div 2)

RECURSIVE XorRows(_, _)
\* the rows for a = lo, ..., lo + n - 1, n a power of 2
XorRows(lo, cnt) ==
  IF cnt = 1 THEN <<XorRow(lo, 0, 256)>>
  ELSE XorRows(lo, cnt \div 2) \o XorRows(lo + (cnt \div 2), cnt \div 2)

RECURSIVE AndRows(_, _)
AndRows(lo, cnt) ==
  IF cnt = 1 THEN <<AndRow(lo, 0, 256)>>
  ELSE AndRows(lo, cnt \div 2) \o AndRows(lo + (cnt \div 2), cnt \div 2)

\* byte-by-byte tables of the two bitwise operations: the entry for bytes
\* a and b is at [a + 1][b + 1]
XorTab == XorRows(0, 256)

AndTab == AndRows(0, 256)

Xor16(a, b) ==
  XorTab[(a \div 256) + 1][(b \div 256) + 1] * 256
    + XorTab[(a % 256) + 1][(b % 256) + 1]

And16(a, b) ==
  AndTab[(a \div 256) + 1][(b \div 256) + 1] * 256
    + AndTab[(a % 256) + 1][(b % 256) + 1]

\* the 32-bit words
Word == (0..65535) \X (0..65535)

Words == Seq(Word)

\* An operation whose argument is used more than once in its definition is
\* defined as a function where it is applied to computed arguments: a
\* function is applied to the value of its argument, which is then computed
\* once, while an operator's argument is computed at each use.

Xor32[x \in Word, y \in Word] == <<Xor16(x[1], y[1]), Xor16(x[2], y[2])>>

And32[x \in Word, y \in Word] == <<And16(x[1], y[1]), And16(x[2], y[2])>>

Not32[x \in Word] == <<65535 - x[1], 65535 - x[2]>>

\* addition modulo 2^32
Add32[x \in Word, y \in Word] ==
  LET lo == x[2] + y[2]
  IN  <<(x[1] + y[1] + (lo \div 65536)) % 65536, lo % 65536>>

\* rotate right by n, 0 <= n < 32
Rotr[x \in Word, cnt \in 0..31] ==
  LET s == IF cnt >= 16 THEN <<x[2], x[1]>> ELSE x
      m == IF cnt >= 16 THEN cnt - 16 ELSE cnt
      p == TwoTo(m)
      q == TwoTo(16 - m)
  IN  <<(s[1] \div p) + ((s[2] % p) * q),
        (s[2] \div p) + ((s[1] % p) * q)>>

\* shift right by n, 0 <= n < 16
Shr[x \in Word, cnt \in 0..15] ==
  LET p == TwoTo(cnt)
      q == TwoTo(16 - cnt)
  IN  <<x[1] \div p, (x[2] \div p) + ((x[1] % p) * q)>>

----------------------------------------------------------------------------
(* SHA-256 *)

K ==
  <<
    <<17034, 12184>>, <<28983, 17553>>, <<46528, 64463>>, <<59829, 56229>>,
    <<14678, 49755>>, <<23025, 4593>>, <<37439, 33444>>, <<43804, 24277>>,
    <<55303, 43672>>, <<4739, 23297>>, <<9265, 34238>>, <<21772, 32195>>,
    <<29374, 23924>>, <<32990, 45566>>, <<39900, 1703>>, <<49563, 61812>>,
    <<58523, 27073>>, <<61374, 18310>>, <<4033, 40390>>, <<9228, 41420>>,
    <<11753, 11375>>, <<19060, 33962>>, <<23728, 43484>>, <<30457, 35034>>,
    <<38974, 20818>>, <<43057, 50797>>, <<45059, 10184>>, <<48985, 32711>>,
    <<50912, 3059>>, <<54695, 37191>>, <<1738, 25425>>, <<5161, 10599>>,
    <<10167, 2693>>, <<11803, 8504>>, <<19756, 28156>>, <<21304, 3347>>,
    <<25866, 29524>>, <<30314, 2747>>, <<33218, 51502>>, <<37490, 11397>>,
    <<41663, 59553>>, <<43034, 26187>>, <<49739, 35696>>, <<51052, 20899>>,
    <<53650, 59417>>, <<54937, 1572>>, <<62478, 13701>>, <<4202, 41072>>,
    <<6564, 49430>>, <<7735, 27656>>, <<10056, 30540>>, <<13488, 48309>>,
    <<14620, 3251>>, <<20184, 43594>>, <<23452, 51791>>, <<26670, 28659>>,
    <<29839, 33518>>, <<30885, 25455>>, <<33992, 30740>>, <<36039, 520>>,
    <<37054, 65530>>, <<42064, 27883>>, <<48889, 41975>>, <<50801, 30962>>
  >>

H0 ==
  <<
    <<27145, 58983>>, <<47975, 44677>>, <<15470, 62322>>, <<42319, 62778>>,
    <<20750, 21119>>, <<39685, 26764>>, <<8067, 55723>>, <<23520, 52505>>
  >>

Ch[x \in Word, y \in Word, z \in Word] ==
  Xor32[And32[x, y], And32[Not32[x], z]]

Maj[x \in Word, y \in Word, z \in Word] ==
  Xor32[Xor32[And32[x, y], And32[x, z]], And32[y, z]]

BigSigma0[x \in Word] == Xor32[Xor32[Rotr[x, 2], Rotr[x, 13]], Rotr[x, 22]]

BigSigma1[x \in Word] == Xor32[Xor32[Rotr[x, 6], Rotr[x, 11]], Rotr[x, 25]]

SmallSigma0[x \in Word] == Xor32[Xor32[Rotr[x, 7], Rotr[x, 18]], Shr[x, 3]]

SmallSigma1[x \in Word] == Xor32[Xor32[Rotr[x, 17], Rotr[x, 19]], Shr[x, 10]]

Bytes == Seq(0..255)

\* the message with the 1 bit, the zero fill and the 64-bit bit length
\* appended (messages here are far below 2^13 bytes, so the length fits
\* the last two bytes)
Pad[bytes \in Bytes] ==
  LET cnt == Len(bytes)
      z == (119 - (cnt % 64)) % 64
  IN  bytes \o <<128>> \o [j \in 1..z |-> 0]
        \o <<0, 0, 0, 0, 0, 0, (cnt * 8) \div 256, (cnt * 8) % 256>>

\* the big-endian word at offset o of the padded message
WordAt(padded, o) ==
  <<padded[o + 1] * 256 + padded[o + 2], padded[o + 3] * 256 + padded[o + 4]>>

\* the sixteen words of block b (counted from 0) of the padded message
BlockWords[padded \in Bytes, b \in Nat] ==
  <<WordAt(padded, 64 * b), WordAt(padded, 64 * b + 4),
    WordAt(padded, 64 * b + 8), WordAt(padded, 64 * b + 12),
    WordAt(padded, 64 * b + 16), WordAt(padded, 64 * b + 20),
    WordAt(padded, 64 * b + 24), WordAt(padded, 64 * b + 28),
    WordAt(padded, 64 * b + 32), WordAt(padded, 64 * b + 36),
    WordAt(padded, 64 * b + 40), WordAt(padded, 64 * b + 44),
    WordAt(padded, 64 * b + 48), WordAt(padded, 64 * b + 52),
    WordAt(padded, 64 * b + 56), WordAt(padded, 64 * b + 60)>>

\* the next word of the message schedule, from the words so far
NextWord(w) ==
  LET t == Len(w) + 1
  IN  Add32[Add32[SmallSigma1[w[t - 2]], w[t - 7]],
            Add32[SmallSigma0[w[t - 15]], w[t - 16]]]

\* the message schedule w extended by n more words (the steps are split in
\* halves, so that the evaluation never nests deeper than the logarithm
\* of n)
Extend[w \in Words, cnt \in Nat] ==
  IF cnt > 1
  THEN Extend[Extend[w, cnt \div 2], cnt - (cnt \div 2)]
  ELSE Append(w, NextWord(w))

\* the message schedule, extended from 16 words to 64
Schedule(w) == Extend[w, 48]

\* the working variables <<a, b, c, d, e, f, g, h>> after a round that
\* adds t1 and t2
Shift[v \in Words, t1 \in Word, t2 \in Word] ==
  <<Add32[t1, t2], v[1], v[2], v[3], Add32[v[4], t1], v[5], v[6], v[7]>>

\* one round: the working variables after a round with schedule word wt
\* and round constant kt
Round(v, wt, kt) ==
  Shift[v,
        Add32[Add32[Add32[v[8], BigSigma1[v[5]]],
                    Add32[Ch[v[5], v[6], v[7]], kt]], wt],
        Add32[BigSigma0[v[1]], Maj[v[1], v[2], v[3]]]]

\* the working variables after the n rounds t, ..., t + n - 1 (split in
\* halves like Extend)
Rounds[v \in Words, w \in Words, t \in Nat, cnt \in Nat] ==
  IF cnt > 1
  THEN Rounds[Rounds[v, w, t, cnt \div 2], w, t + (cnt \div 2),
              cnt - (cnt \div 2)]
  ELSE Round(v, w[t], K[t])

\* the hash value h with the working variables v added to it
AddWords[h \in Words, v \in Words] ==
  <<Add32[h[1], v[1]], Add32[h[2], v[2]], Add32[h[3], v[3]],
    Add32[h[4], v[4]], Add32[h[5], v[5]], Add32[h[6], v[6]],
    Add32[h[7], v[7]], Add32[h[8], v[8]]>>

Compress[h \in Words, block \in Words] ==
  AddWords[h, Rounds[h, Schedule(block), 1, 64]]

RECURSIVE Blocks(_, _, _)
Blocks(h, padded, b) ==
  IF 64 * b >= Len(padded) THEN h
  ELSE Blocks(Compress[h, BlockWords[padded, b]], padded, b + 1)

\* the digest of a padded message
Digest[padded \in Bytes] == Blocks(H0, padded, 0)

\* hashlib.sha256(bytes): the digest as eight 32-bit words
Sha256(bytes) == Digest[Pad[bytes]]

RECURSIVE ModHorner(_, _, _, _)
\* the big-endian number whose base-65536 digits are halves[j..], with r
\* the residue of the digits before j, reduced modulo m
ModHorner(halves, j, r, m) ==
  IF j > Len(halves) THEN r
  ELSE ModHorner(halves, j + 1, (r * 65536 + halves[j]) % m, m)

\* the sixteen 16-bit halves of a digest, most significant first
Halves[digest \in Words] ==
  <<digest[1][1], digest[1][2], digest[2][1], digest[2][2],
    digest[3][1], digest[3][2], digest[4][1], digest[4][2],
    digest[5][1], digest[5][2], digest[6][1], digest[6][2],
    digest[7][1], digest[7][2], digest[8][1], digest[8][2]>>

\* the big-endian number whose base-65536 digits are halves, modulo m
Residue[halves \in Seq(Nat), m \in Nat] == ModHorner(halves, 1, 0, m)

\* int(hash_obj.hexdigest(), 16) % m
DigestMod(digest, m) == Residue[Halves[digest], m]

----------------------------------------------------------------------------
(* Python strings, slices and floats *)

RECURSIVE Str(_)
\* str(n) for an int n >= 0: its decimal digits as code points
Str(cnt) ==
  IF cnt < 10 THEN <<48 + cnt>>
  ELSE Str(cnt \div 10) \o <<48 + (cnt % 10)>>

\* the UTF-8 bytes of a code point below 2048
Utf8(c) ==
  IF c < 128 THEN <<c>> ELSE <<192 + (c \div 64), 128 + (c % 64)>>

RECURSIVE Concat(_, _, _)
\* parts[lo] \o ... \o parts[lo + n - 1]
Concat(parts, lo, cnt) ==
  IF cnt = 0 THEN <<>>
  ELSE IF cnt = 1 THEN parts[lo]
  ELSE Concat(parts, lo, cnt \div 2)
         \o Concat(parts, lo + (cnt \div 2), cnt - (cnt \div 2))

\* "".join(parts)
Join(parts) == Concat(parts, 1, Len(parts))

\* s.encode(): the UTF-8 bytes of a string of code points below 2048
Encode[s \in Seq(0..2047)] == Join([j \in 1..Len(s) |-> Utf8(s[j])])

\* s[-k:] for k > 0: a negative start counts from the end and is clamped
\* to the start of the sequence
SliceLast(s, k) ==
  LET start == IF Len(s) - k < 0 THEN 0 ELSE Len(s) - k
  IN  SubSeq(s, start + 1, Len(s))

\* binary numbers, most significant bit first
Bits == Seq({0, 1})

\* A float (a non-negative IEEE 754 double) is [man, exp]: man the 53
\* significand bits, most significant (a 1) first, and the value is
\* man * 2^exp; 0.0 has man = <<>>.
Floats == [man : Bits, exp : Int]

FloatZero == [man |-> <<>>, exp |-> 0]

\* the binary digits of a natural number
BitsOf[k \in Nat] == IF k = 0 THEN <<>> ELSE BitsOf[k \div 2] \o <<k % 2>>

Zeros(k) == [j \in 1..k |-> 0]

\* the binary number bits plus one
Increment[bits \in Bits] ==
  LET zeros == {j \in 1..Len(bits) : bits[j] = 0}
      last  == CHOOSE j \in zeros : \A k \in zeros : k <= j
  IN  IF zeros = {} THEN <<1>> \o Zeros(Len(bits))
      ELSE SubSeq(bits, 1, last - 1) \o <<1>> \o Zeros(Len(bits) - last)

\* the 53 bits inc of a significand, or the 54 of one that rounding took to
\* the next power of two, as a float with the exponent e of its last bit
Carried[inc \in Bits, e \in Int] ==
  IF Len(inc) = 53 THEN [man |-> inc, exp |-> e]
  ELSE [man |-> SubSeq(inc, 1, 53), exp |-> e + 1]

\* bits * 2^exp (bits starting with a 1) rounded to a double, to nearest
\* and on a tie to even
FloatRound[bits \in Bits, exp \in Int] ==
  LET len  == Len(bits)
      keep == SubSeq(bits, 1, 53)
      up   == /\ len > 53
              /\ bits[54] = 1
              /\ \/ bits[53] = 1
                 \/ \E j \in 55..len : bits[j] = 1
  IN  IF len <= 53
      THEN [man |-> bits \o Zeros(53 - len), exp |-> exp - (53 - len)]
      ELSE IF ~up THEN [man |-> keep, exp |-> exp + (len - 53)]
      ELSE Carried[Increment[keep], exp + (len - 53)]

\* float(k) for an int 0 <= k < 2^31
FloatOfInt(k) == IF k = 0 THEN FloatZero ELSE FloatRound[BitsOf[k], 0]

\* <<a', b', e'>> with a' / b' in [1, 2) and (a' / b') * 2^e' = (a / b) * 2^e
Normalise[a \in Nat, b \in Nat, e \in Int] ==
  IF a < b THEN Normalise[2 * a, b, e - 1]
  ELSE IF a >= 2 * b THEN Normalise[a, 2 * b, e + 1]
  ELSE <<a, b, e>>

\* one step of long division by b: q is the quotient bits so far with the
\* remainder appended
QuotStep(q, b) ==
  LET r    == q[Len(q)]
      bits == SubSeq(q, 1, Len(q) - 1)
  IN  IF 2 * r >= b THEN bits \o <<1, 2 * r - b>>
      ELSE bits \o <<0, 2 * r>>

\* n steps of long division by b (split in halves like Extend)
QuotBits[q \in Seq(Nat), b \in Nat, cnt \in Nat] ==
  IF cnt > 1
  THEN QuotBits[QuotBits[q, b, cnt \div 2], b, cnt - (cnt \div 2)]
  ELSE QuotStep(q, b)

\* the 53 quotient bits and the remainder q of a division by b, whose
\* last quotient bit has exponent e, rounded to a double
QuotRound[q \in Seq(Nat), b \in Nat, e \in Int] ==
  LET r    == q[54]
      bits == SubSeq(q, 1, 53)
      \* the first dropped bit and whether anything follows it
      tail == IF 2 * r >= b
              THEN (IF 2 * r > b THEN <<1, 1>> ELSE <<1>>)
              ELSE (IF r > 0 THEN <<0, 1>> ELSE <<>>)
  IN  FloatRound[bits \o tail, e - Len(tail)]

\* nm[1] / nm[2] * 2^nm[3] for a quotient in [1, 2), correctly rounded
Quotient[nm \in Seq(Int)] ==
  QuotRound[QuotBits[<<1, nm[1] - nm[2]>>, nm[2], 52], nm[2], nm[3] - 52]

\* a faulty division: c // n, the integer quotient
FloorDiv(c, cnt) == FloatOfInt(c \div cnt)

\* c / n for ints c >= 0, n > 0: true division, correctly rounded
TrueDiv(c, cnt) ==
  IF c = 0 THEN FloatZero ELSE Quotient[Normalise[c, cnt, 0]]

\* one step of a multiplication by k, from the least significant bit: acc
\* is the number of bits still to multiply, the carry, and the product
\* bits so far
MulStep(bits, k, acc) ==
  LET t == bits[acc[1]] * k + acc[2]
  IN  <<acc[1] - 1, t \div 2, t % 2>> \o SubSeq(acc, 3, Len(acc))

\* n steps of the multiplication (split in halves like Extend)
MulLoop[bits \in Bits, k \in Nat, acc \in Seq(Nat), cnt \in Nat] ==
  IF cnt > 1
  THEN MulLoop[bits, k, MulLoop[bits, k, acc, cnt \div 2],
               cnt - (cnt \div 2)]
  ELSE MulStep(bits, k, acc)

\* the product bits of a finished multiplication, led by its last carry
CarryOut[acc \in Seq(Nat)] == BitsOf[acc[2]] \o SubSeq(acc, 3, Len(acc))

\* the binary number bits (not empty) times the small natural k, plus the
\* small natural c
MulAdd[bits \in Bits, k \in Nat, c \in Nat] ==
  CarryOut[MulLoop[bits, k, <<Len(bits), c>>, Len(bits)]]

\* x * k for a float x and an int 0 < k < 2^20 (k converts to a float
\* exactly, and the product is rounded once)
FloatMulInt[x \in Floats, k \in Nat] ==
  IF x.man = <<>> THEN FloatZero
  ELSE FloatRound[MulAdd[x.man, k, 0], x.exp]

----------------------------------------------------------------------------
(* Program constants and the bounds of the model *)

\* "ejhollenhub2026", the default seed of QuantumCollapse.__init__
DefaultSeed ==
  <<101, 106, 104, 111, 108, 108, 101, 110, 104, 117, 98, 50, 48, 50, 54>>

HistoryWindow == 10

Modulus == 100

CollapseThreshold == 85

PerCent == 100

RangeStart == 1

RangeStop == 101

ProgressEvery == 10

ProgressFirst == 5

\* the flip numbers a client of the engine passes to run_trial
FlipNums == {7, 100}

\* the longest history a client of the engine builds
MaxTrials == 13

\* the number of leading trials of a run whose inputs (the random outcome,
\* and the flip number a client passes) are unconstrained; the runs explored
\* repeat them from then on with this period
FreeFlips == 3

Unset == 0 - 1

----------------------------------------------------------------------------
(* class QuantumCollapse *)

\* the values pure_random_flip can return
pure_random_flip == {0, 1}

\* a faulty history_str that joins the whole history, not its last ten
history_str_whole(h) == Join([j \in 1..Len(h) |-> Str(h[j].actual)])

\* "".join(str(h['actual']) for h in self.history[-10:])
history_str(h) ==
  LET w == SliceLast(h, HistoryWindow)
  IN  Join([j \in 1..Len(w) |-> Str(w[j].actual)])

\* a faulty quantum_state that leaves str(flip_num) out
QuantumStateNoIndex(sd, f, h) == sd \o history_str(h)

\* self.seed + str(flip_num) + history_str
QuantumState(sd, f, h) == sd \o Str(f) \o history_str(h)

\* int(hashlib.sha256(quantum_state.encode()).hexdigest(), 16) % 100
QuantumNum(qs) == DigestMod(Sha256(Encode[qs]), Modulus)

\* a faulty collapse whose threshold is inclusive
CollapseInclusive(qn) == IF qn <= CollapseThreshold THEN 1 ELSE 0

\* 1 if quantum_num < 85 else 0
Collapse(qn) == IF qn < CollapseThreshold THEN 1 ELSE 0

\* one call of biphoton_cascade_prediction: its argument, its locals and
\* the prediction it returns
biphoton_cascade_prediction(sd, f, h) ==
  LET qs == QuantumState(sd, f, h)
      qn == QuantumNum(qs)
  IN  [flip_num |-> f, quantum_state |-> qs, quantum_num |-> qn,
       prediction |-> Collapse(qn)]

\* a faulty run_trial that draws the outcome before it predicts
FlipFirstOrder == <<"flip", "predict", "record">>

\* the statements of run_trial before its return, in program order
RunTrialOrder == <<"predict", "flip", "record">>

\* a faulty comparison
Mismatch(p, a) == p # a

\* correct = (prediction == actual)
Correct(p, a) == p = a

\* the dict run_trial appends
TrialRecord(f, p, a, c) ==
  [flip |-> f, prediction |-> p, actual |-> a, correct |-> c]

\* a faulty append that inserts at the front
ListPrepend(h, rec) == <<rec>> \o h

\* self.history.append(rec)
ListAppend(h, rec) == Append(h, rec)

\* sum(1 for h in self.history if h['correct'])
CountCorrect(h) == Cardinality({k \in 1..Len(h) : h[k].correct})

\* a faulty get_accuracy without the default for an empty history
get_accuracy_no_default(h) ==
  FloatMulInt[IF Len(h) = 0 THEN FloatZero
              ELSE TrueDiv(CountCorrect(h), Len(h)), PerCent]

\* if not self.history: return 50.0
\* correct = sum(1 for h in self.history if h['correct'])
\* return (correct / len(self.history)) * 100
get_accuracy(h) ==
  IF Len(h) = 0 THEN FloatOfInt(50)
  ELSE FloatMulInt[TrueDiv(CountCorrect(h), Len(h)), PerCent]

----------------------------------------------------------------------------
(* State *)

VARIABLES
  seed,         \* self.seed
  history,      \* self.history
  pc,           \* where control is: "idle" (between a client's calls),
                \* "run_trial", or the driver's "loop", "progress",
                \* "results", "stats", "done"
  stmt,         \* inside run_trial: the index in RunTrialOrder of the
                \* next statement
  caller,       \* who calls the engine: "client" or "driver"
  flip_num,     \* run_trial's argument
  prediction,   \* run_trial's locals (Unset, or FALSE, before assignment)
  actual,
  correct,
  ret,          \* the last call that returned, its argument and its value;
                \* op is "none" from the start of a call to its return
  predictions,  \* every call of biphoton_cascade_prediction so far
  i,            \* the driver's loop variable
  final_acc,    \* the driver's final_acc
  n             \* the driver's sample size, 0 before it is computed

vars ==
  <<seed, history, pc, stmt, caller, flip_num, prediction, actual, correct,
    ret, predictions, i, final_acc, n>>

engine == <<seed, history>>

locals == <<flip_num, prediction, actual, correct>>

driver == <<i, final_acc, n>>

NoReturn == [op |-> "none", arg |-> Unset, val |-> <<>>]

\* the inputs of a trial that the bounded runs explore
ExploredArgument(h, f) ==
  IF Len(h) < FreeFlips THEN TRUE ELSE f = h[Len(h) - FreeFlips + 1].flip

ExploredOutcome(h, a) ==
  IF Len(h) < FreeFlips THEN TRUE ELSE a = h[Len(h) - FreeFlips + 1].actual

\* the state after QuantumCollapse(), called by who
Constructed(who) ==
  /\ seed = DefaultSeed
  /\ history = <<>>
  /\ caller = who
  /\ stmt = 0
  /\ flip_num = Unset
  /\ prediction = Unset
  /\ actual = Unset
  /\ correct = FALSE
  /\ ret = NoReturn
  /\ predictions = <<>>
  /\ final_acc = FloatZero
  /\ n = 0

----------------------------------------------------------------------------
(* run_trial, statement by statement *)

\* the call run_trial(f)
Enter(f) ==
  /\ pc' = "run_trial"
  /\ stmt' = 1
  /\ flip_num' = f
  /\ prediction' = Unset
  /\ actual' = Unset
  /\ correct' = FALSE
  /\ ret' = NoReturn

AtStatement(name) ==
  /\ pc = "run_trial"
  /\ stmt <= Len(RunTrialOrder)
  /\ RunTrialOrder[stmt] = name

\* prediction = self.biphoton_cascade_prediction(flip_num)
RunTrialPredict ==
  /\ AtStatement("predict")
  /\ LET call == biphoton_cascade_prediction(seed, flip_num, history)
     IN  predictions' = Append(predictions, call)
  /\ prediction' = predictions'[Len(predictions')].prediction
  /\ stmt' = stmt + 1
  /\ UNCHANGED <<engine, pc, caller, flip_num, actual, correct, ret, driver>>

\* actual = self.pure_random_flip()
RunTrialFlip ==
  /\ AtStatement("flip")
  /\ \E a \in pure_random_flip :
       /\ ExploredOutcome(history, a)
       /\ actual' = a
  /\ stmt' = stmt + 1
  /\ UNCHANGED <<engine, pc, caller, flip_num, prediction, correct, ret,
                 predictions, driver>>

\* correct = (prediction == actual); self.history.append({...})
RunTrialRecord ==
  /\ AtStatement("record")
  /\ correct' = Correct(prediction, actual)
  /\ history' =
       ListAppend(history,
                  TrialRecord(flip_num, prediction, actual, correct'))
  /\ stmt' = stmt + 1
  /\ UNCHANGED <<seed, pc, caller, flip_num, prediction, actual, ret,
                 predictions, driver>>

\* return prediction, actual, correct
RunTrialReturn ==
  /\ pc = "run_trial"
  /\ stmt = Len(RunTrialOrder) + 1
  /\ ret' = [op |-> "run_trial", arg |-> flip_num,
             val |-> <<prediction, actual, correct>>]
  /\ pc' = IF caller = "driver" THEN "progress" ELSE "idle"
  /\ stmt' = 0
  /\ flip_num' = Unset
  /\ prediction' = Unset
  /\ actual' = Unset
  /\ correct' = FALSE
  /\ UNCHANGED <<engine, caller, predictions, driver>>

RunTrial ==
  \/ RunTrialPredict
  \/ RunTrialFlip
  \/ RunTrialRecord
  \/ RunTrialReturn

----------------------------------------------------------------------------
(* A client of the engine: any sequence of calls *)

ClientRunTrial(f) ==
  /\ pc = "idle"
  /\ Len(history) < MaxTrials
  /\ ExploredArgument(history, f)
  /\ Enter(f)
  /\ UNCHANGED <<engine, caller, predictions, driver>>

ClientGetAccuracy ==
  /\ pc = "idle"
  /\ ret' = [op |-> "get_accuracy", arg |-> Unset,
             val |-> get_accuracy(history)]
  /\ UNCHANGED <<engine, pc, stmt, caller, locals, predictions, driver>>

Init ==
  /\ Constructed("client")
  /\ pc = "idle"
  /\ i = 0

Next ==
  \/ \E f \in FlipNums : ClientRunTrial(f)
  \/ ClientGetAccuracy
  \/ RunTrial

Spec == Init /\ [][Next]_vars

----------------------------------------------------------------------------
(* run_quantum_poc *)

\* a faulty loop bound that runs the body once more
LoopInclusive(k) == k <= RangeStop

\* for i in range(1, 101): whether the loop runs its body for i
LoopContinues(k) == k < RangeStop

\* if i % 10 == 0 or i <= 5
ShowsProgress(k) == k % ProgressEvery = 0 \/ k <= ProgressFirst

DriverLoop ==
  /\ pc = "loop"
  /\ IF LoopContinues(i)
     THEN Enter(i)
     ELSE /\ pc' = "results"
          /\ UNCHANGED <<stmt, locals, ret>>
  /\ UNCHANGED <<engine, caller, predictions, driver>>

DriverProgress ==
  /\ pc = "progress"
  /\ ret' = IF ShowsProgress(i)
            THEN [op |-> "get_accuracy", arg |-> Unset,
                  val |-> get_accuracy(history)]
            ELSE ret
  /\ i' = i + 1
  /\ pc' = "loop"
  /\ UNCHANGED <<engine, stmt, caller, locals, predictions, final_acc, n>>

\* final_acc = qc.get_accuracy()
DriverResults ==
  /\ pc = "results"
  /\ final_acc' = get_accuracy(history)
  /\ ret' = [op |-> "get_accuracy", arg |-> Unset, val |-> final_acc']
  /\ pc' = "stats"
  /\ UNCHANGED <<engine, stmt, caller, locals, predictions, i, n>>

\* n = len(qc.history)
DriverStats ==
  /\ pc = "stats"
  /\ n' = Len(history)
  /\ pc' = "done"
  /\ UNCHANGED <<engine, stmt, caller, locals, ret, predictions, i,
                 final_acc>>

InitDriver ==
  /\ Constructed("driver")
  /\ pc = "loop"
  /\ i = RangeStart

NextDriver ==
  \/ DriverLoop
  \/ DriverProgress
  \/ DriverResults
  \/ DriverStats
  \/ RunTrial

\* the driver is one sequential program: it keeps running until it ends
SpecDriver == InitDriver /\ [][NextDriver]_vars /\ WF_vars(NextDriver)

----------------------------------------------------------------------------
(* Properties of the engine, checked on Spec *)

\* the number of records of h whose correct field is true
NumCorrect(h) == Cardinality({k \in 1..Len(h) : h[k].correct = TRUE})

\* x <= y for two binary numbers, most significant bit first, without
\* leading zeros
BigLeq(x, y) ==
  IF Len(x) # Len(y) THEN Len(x) < Len(y)
  ELSE LET diff == {j \in 1..Len(x) : x[j] # y[j]}
       IN  IF diff = {} THEN TRUE
           ELSE x[CHOOSE j \in diff : \A m \in diff : j <= m] = 0

\* the float x is within u half units in the last place of the rational
\* p / q (p >= 0, q > 0), the unit being that of x, 2^x.exp:
\*   | man * 2^exp - p / q | <= (u / 2) * 2^exp,  that is
\*   | 2 * q * man - 2 * p * 2^(-exp) | <= u * q
WithinHalfUlps(x, p, q, u) ==
  IF p = 0 THEN x = FloatZero
  ELSE /\ x.man # <<>>
       /\ x.exp < 0
       /\ LET a == MulAdd[x.man, 2 * q, 0]
              b == MulAdd[BitsOf[p] \o Zeros(0 - x.exp), 2, 0]
          IN  /\ BigLeq(a, MulAdd[b, 1, u * q])
              /\ BigLeq(b, MulAdd[a, 1, u * q])

\* the double 50.0: 110010 in binary, scaled to 53 bits
Fifty == [man |-> <<1, 1, 0, 0, 1, 0>> \o Zeros(47), exp |-> 0 - 47]

\* the actual values of the last ten records of h (of all, when fewer)
WindowActuals(h) ==
  LET wlen == IF Len(h) < 10 THEN Len(h) ELSE 10
  IN  [j \in 1..wlen |-> h[Len(h) - wlen + j].actual]

RECURSIVE DecimalValue(_)
\* the number a sequence of decimal digit characters denotes
DecimalValue(ds) ==
  IF ds = <<>> THEN 0
  ELSE 10 * DecimalValue(SubSeq(ds, 1, Len(ds) - 1)) + (ds[Len(ds)] - 48)

\* the string hashed by one call of biphoton_cascade_prediction is the seed,
\* then the decimal text of the call's flip_num, then one character '0' or
\* '1' for the actual value of each of the last ten records (of all, when
\* fewer) of before, the history at the call, and nothing else
HashedTextIs(call, before) ==
  LET qs     == call.quantum_state
      win    == WindowActuals(before)
      dlen   == Len(qs) - Len(seed) - Len(win)
      digits == SubSeq(qs, Len(seed) + 1, Len(seed) + dlen)
  IN  /\ dlen >= 1
      /\ SubSeq(qs, 1, Len(seed)) = seed
      /\ \A j \in 1..dlen : digits[j] \in 48..57
      /\ IF dlen > 1 THEN digits[1] # 48 ELSE TRUE
      /\ DecimalValue(digits) = call.flip_num
      /\ \A j \in 1..Len(win) : qs[Len(seed) + dlen + j] = 48 + win[j]

\* C1: every call run_trial(flip_num) appends exactly one record to the end
\* of the history and changes nothing else in it.  Step by step: a call
\* starts at its first statement and goes through its statements in order,
\* one at a time, to its return; the statement that records the trial
\* makes the history the old history followed by one record (the length
\* grows by 1, every older record keeps its place and its fields); no other
\* step of the call, and no other operation, changes the history; the seed
\* never changes.
C1_RunTrialAppendsOneRecord ==
  [][/\ IF pc = "run_trial" /\ stmt = 3
        THEN /\ Len(history') = Len(history) + 1
             /\ SubSeq(history', 1, Len(history)) = history
             /\ history'[Len(history')].flip = flip_num
             /\ DOMAIN history'[Len(history')]
                  = {"flip", "prediction", "actual", "correct"}
        ELSE history' = history
     /\ seed' = seed
     /\ (pc # "run_trial" /\ pc' = "run_trial") => stmt' = 1
     /\ (pc = "run_trial" /\ pc' = "run_trial") => stmt' = stmt + 1
     /\ (pc = "run_trial" /\ pc' # "run_trial") =>
          (stmt = 4 /\ ret'.op = "run_trial")]_vars

\* a call of run_trial has returned after appending to a history that held
\* two different records already
C1_AppendedToNonEmptyHistory ==
  /\ ret.op = "run_trial"
  /\ Len(history) >= 3
  /\ history[1] # history[2]

\* C2, as stated: after N >= 1 calls of run_trial, get_accuracy() equals
\* 100 * (number of correct records) / N -- read in the way most favourable
\* to the statement, as the double nearest to that rational number
C2_AccuracyIsTheExactPercentage ==
  (ret.op = "get_accuracy" /\ Len(history) >= 1) =>
    WithinHalfUlps(ret.val, 100 * NumCorrect(history), Len(history), 1)

\* C2, amended: after N >= 1 calls of run_trial, get_accuracy() is within
\* two units in the last place of 100 * (number of correct records) / N
\* (it is the double (correct / N) * 100, rounded after the division and
\* again after the multiplication, which is not always the nearest double)
C2_AccuracyWithinTwoUlps ==
  (ret.op = "get_accuracy" /\ Len(history) >= 1) =>
    WithinHalfUlps(ret.val, 100 * NumCorrect(history), Len(history), 4)

\* get_accuracy() has returned, after three trials of which one was
\* correct, a double that is not the nearest to 100 / 3
C2_OneOfThreeIsNotNearest ==
  /\ ret.op = "get_accuracy"
  /\ Len(history) = 3
  /\ NumCorrect(history) = 1
  /\ ~WithinHalfUlps(ret.val, 100, 3, 1)

\* C3: get_accuracy() on an engine with an empty history returns exactly
\* 50.0
C3_EmptyHistoryGivesFifty ==
  (ret.op = "get_accuracy" /\ history = <<>>) => ret.val = Fifty

\* get_accuracy() has returned on an empty history
C3_AskedOnEmptyHistory ==
  /\ ret.op = "get_accuracy"
  /\ history = <<>>

\* C5: every record of the history has prediction in {0, 1}, actual in
\* {0, 1} and correct equal to (prediction = actual); and the triple that
\* run_trial(flip_num) returns equals the prediction, actual and correct
\* fields of the record the call appended, whose flip field is flip_num
C5_RecordsAreConsistent ==
  /\ \A k \in 1..Len(history) :
       /\ history[k].prediction \in {0, 1}
       /\ history[k].actual \in {0, 1}
       /\ history[k].correct \in BOOLEAN
       /\ history[k].correct <=> (history[k].prediction = history[k].actual)
  /\ ret.op = "run_trial" =>
       /\ Len(history) >= 1
       /\ ret.val = <<history[Len(history)].prediction,
                      history[Len(history)].actual,
                      history[Len(history)].correct>>
       /\ history[Len(history)].flip = ret.arg

\* run_trial has returned, and the history holds a correct and an
\* incorrect record
C5_ReturnedWithBothKindsOfRecord ==
  /\ ret.op = "run_trial"
  /\ \E k \in 1..Len(history) : history[k].correct
  /\ \E k \in 1..Len(history) : ~history[k].correct

\* C6: in every call of biphoton_cascade_prediction the digest reduced
\* modulo 100 is in 0..99, and the prediction returned is 1 if and only if
\* that value is less than 85, and 0 otherwise
C6_ModuloRangeAndThreshold ==
  \A k \in 1..Len(predictions) :
    /\ predictions[k].quantum_num \in 0..99
    /\ predictions[k].prediction \in {0, 1}
    /\ predictions[k].prediction = 1 <=> predictions[k].quantum_num < 85
    /\ predictions[k].prediction = 0 <=> predictions[k].quantum_num >= 85

\* calls have returned 1 for a value below 85 and 0 for the value 85
C6_BothSidesOfTheThreshold ==
  /\ \E k \in 1..Len(predictions) :
       predictions[k].quantum_num < 85 /\ predictions[k].prediction = 1
  /\ \E k \in 1..Len(predictions) :
       predictions[k].quantum_num = 85 /\ predictions[k].prediction = 0

\* C7: the string biphoton_cascade_prediction hashes is the seed, then the
\* decimal text of flip_num, then the actual values of the last
\* min(10, len(history)) records in history order, and nothing else; so two
\* calls with the same flip_num, on histories of any lengths whose last ten
\* records (or all, when fewer) carry the same actual values, hash the same
\* string and return the same prediction, whatever the older records and
\* the other fields are.  (Call k of an engine is made on the first k - 1
\* records of its history.)
C7_HashedTextIsSeedIndexWindow ==
  /\ \A k \in 1..Len(predictions) :
       HashedTextIs(predictions[k], SubSeq(history, 1, k - 1))
  /\ \A j, k \in 1..Len(predictions) :
       ( /\ predictions[j].flip_num = predictions[k].flip_num
         /\ WindowActuals(SubSeq(history, 1, j - 1))
              = WindowActuals(SubSeq(history, 1, k - 1)) )
       => /\ predictions[j].quantum_state = predictions[k].quantum_state
          /\ predictions[j].prediction = predictions[k].prediction

\* two calls with the same flip_num were made on histories of more than
\* ten records and of different lengths, whose last ten records carry the
\* same actual values but differ in another field
C7_SameWindowDifferentHistories ==
  \E j, k \in 1..Len(predictions) :
    /\ 10 < j - 1
    /\ j < k
    /\ predictions[j].flip_num = predictions[k].flip_num
    /\ WindowActuals(SubSeq(history, 1, j - 1))
         = WindowActuals(SubSeq(history, 1, k - 1))
    /\ SubSeq(history, j - 10, j - 1) # SubSeq(history, k - 10, k - 1)

----------------------------------------------------------------------------
(* Properties of the driver, checked on SpecDriver *)

\* C8: within run_trial(i) the prediction is computed first, then the
\* outcome is drawn, then the record is appended; in the driver run the
\* history holds exactly the records of trials 1..i-1, in order, when the
\* prediction of trial i is computed, and the prediction recorded for
\* trial i is the one computed then, from a string that carries actual
\* values of trials before i only
C8_PredictThenFlipThenRecord ==
  /\ [](/\ pc = "run_trial" =>
             /\ flip_num = i
             /\ Len(history) \in {i - 1, i}
             /\ prediction = Unset =>
                  (actual = Unset /\ Len(history) = i - 1)
             /\ actual = Unset => Len(history) = i - 1
        /\ \A k \in 1..Len(history) :
             /\ history[k].flip = k
             /\ history[k].prediction = predictions[k].prediction
        /\ \A k \in 1..Len(predictions) :
             /\ predictions[k].flip_num = k
             /\ HashedTextIs(predictions[k], SubSeq(history, 1, k - 1)))
  /\ [][Len(predictions') # Len(predictions) =>
          /\ Len(predictions') = i
          /\ Len(history) = i - 1
          /\ history' = history
          /\ actual = Unset
          /\ actual' = Unset]_vars

\* the record of a trial after the tenth has been appended, after its
\* prediction and its outcome
C8_LateTrialRecorded ==
  /\ pc = "run_trial"
  /\ i > 10
  /\ Len(history) = i
  /\ history[i].prediction = predictions[i].prediction

\* the driver's terminal state: 100 calls of run_trial, made with flip_num
\* 1, 2, ..., 100 in this order, 100 records of which the k-th has flip k,
\* and a sample size of 100
DriverFinished ==
  /\ pc = "done"
  /\ Len(predictions) = 100
  /\ \A k \in 1..100 : predictions[k].flip_num = k
  /\ Len(history) = 100
  /\ \A k \in 1..100 : history[k].flip = k
  /\ n = 100

\* C9: run_quantum_poc always terminates, whatever the random outcomes,
\* after calling run_trial exactly 100 times with flip_num 1, 2, ..., 100
\* in this order on one fresh engine; in the terminal state the history has
\* exactly 100 records, the k-th with flip k, and the sample size n is 100
C9_DriverTerminatesAfter100Trials ==
  /\ <>(pc = "done")
  /\ [](pc = "done" => DriverFinished)
  /\ [](Len(predictions) <= 100)

\* the driver has ended
C9_DriverEnded ==
  /\ pc = "done"
  /\ Len(history) = 100
  /\ n = 100

\* the length of the text after the seed in the string hashed for trial k
TextLength(k) ==
  IF k <= 9 THEN k ELSE IF k = 10 THEN 11 ELSE IF k <= 99 THEN 12 ELSE 13

\* C10: in one driver run the strings hashed for two different trials are
\* never equal, whatever the random outcomes: the text after the seed has
\* length 1..9 for trials 1..9, 11 for trial 10, 12 for trials 11..99 and
\* 13 for trial 100, and the trials with equal lengths differ in their
\* first two characters
C10_HashedStringsAreDistinct ==
  /\ \A k \in 1..Len(predictions) :
       Len(predictions[k].quantum_state) = Len(seed) + TextLength(k)
  /\ \A j, k \in 11..Len(predictions) :
       j # k => SubSeq(predictions[j].quantum_state,
                       Len(seed) + 1, Len(seed) + 2)
                  # SubSeq(predictions[k].quantum_state,
                           Len(seed) + 1, Len(seed) + 2)
  /\ Cardinality({predictions[k].quantum_state : k \in 1..Len(predictions)})
       = Len(predictions)

\* all 100 strings have been hashed, and two trials whose texts have the
\* same length saw the same ten actual values
C10_OnlyTheIndexDiffers ==
  /\ Len(predictions) = 100
  /\ \E j, k \in 11..99 :
       /\ j # k
       /\ WindowActuals(SubSeq(history, 1, j - 1))
            = WindowActuals(SubSeq(history, 1, k - 1))

====
